---- MODULE Spec2Model ----
(***************************************************************************)
(* Model of the resume-triage agent of src/main.py: analyze_resume (the    *)
(* plan generator with its retry loop), AuthorizationScreen (the human     *)
(* gate), Recruiter.start_processing / stop_processing / process_resumes   *)
(* (the batch loop, an asyncio task) and Recruiter.execute_file_move.      *)
(*                                                                         *)
(* The event loop runs one callback at a time: a step of the task runs     *)
(* from one await to the next without interleaving.  The points where the  *)
(* task waits are `await asyncio.to_thread(...)` (pc = "calling") and      *)
(* `await self._modal_future` (pc = "modal").  pc = "loop" is the head of  *)
(* the while loop, inside a step: no handler runs there.                   *)
(*                                                                         *)
(* Environment: the remote call answers with any text or raises; reading a *)
(* resume and moving a file may fail; appending to the audit log and       *)
(* writing to the log widget are taken to succeed.                         *)
(***************************************************************************)
EXTENDS Integers, Sequences, FiniteSets, TLC

\* ---- bounds of the model
NumFiles == 2
MaxStarts == 2

\* ---- program constants
max_retries == 3

Files == 1..NumFiles
INBOX == "inbox"

\* ---- the remote call: model.generate_content(prompt)
TransientExceptions == {"ResourceExhausted", "ServiceUnavailable"}
OtherExceptions == {"PermissionDenied"}
Texts ==
  {"", "not json", "move_interview", "move_rejected", "move_archive", "skip",
   "no_command", "no_destination"}
Outcomes ==
  {[exc |-> e, text |-> ""] : e \in TransientExceptions \cup OtherExceptions}
    \cup {[exc |-> "", text |-> t] : t \in Texts}

Decision(score, thought, action, folder) ==
  [match_score |-> score, thought_process |-> thought,
   command |-> [action |-> action, destination_folder |-> folder]]

\* json.loads raises JSONDecodeError on this text
JSONDecodeError(text) == text = "not json"

\* json.loads(response.text): the value the text denotes, whatever its shape
json_loads(text) ==
  CASE text = "move_interview" ->
         Decision(85, "model", "MOVE_FILE", "Interview_Candidates")
    [] text = "move_rejected" ->
         Decision(40, "model", "MOVE_FILE", "Rejected_Candidates")
    [] text = "move_archive" -> Decision(50, "model", "MOVE_FILE", "Archive")
    [] text = "skip" -> Decision(10, "model", "SKIP", "Rejected_Candidates")
    [] text = "no_command" -> [match_score |-> 50, thought_process |-> "model"]
    [] text = "no_destination" ->
         [match_score |-> 50, thought_process |-> "model",
          command |-> [action |-> "MOVE_FILE"]]

\* the dict of the `except Exception` branch; type(e).__name__ in the text
Fallback(exc_name) ==
  Decision(0, "ERROR: Failed plan generation due to " \o exc_name, "SKIP",
           "Rejected_Candidates")

\* the dict after the for loop
Exhausted ==
  [match_score |-> 0,
   thought_process |-> "CRITICAL: API failed permanently after retries."]

NoValue == [none |-> TRUE]

\* the worker thread running analyze_resume
NoOutcome == [exc |-> "", text |-> "none"]

\* the worker thread running analyze_resume: the loop variable `attempt`, the
\* exception it raised or the value it returned, and the history of the run:
\* calls of generate_content, transient failures among them, the last
\* outcome, the delays slept
IdleThread ==
  [status |-> "idle", attempt |-> 0, exc |-> "", value |-> NoValue,
   calls |-> 0, transients |-> 0, last |-> NoOutcome, slept |-> <<>>]
NewThread == [IdleThread EXCEPT !.status = "running"]

\* variant: every exception of the API counts as transient
IsTransient_AnyApiError(exc) == exc # ""

\* `except (ResourceExhausted, ServiceUnavailable)`
IsTransient(exc) == exc \in TransientExceptions

\* variant: the last attempt sleeps and continues instead of raising
ShouldRetry_NoLastRaise(attempt) == attempt < max_retries

\* `if attempt < max_retries - 1`

ShouldRetry(attempt) == attempt < max_retries - 1

\* variant: the wait grows linearly
Backoff_Linear(attempt) == 2 * attempt

\* time.sleep(2 ** attempt): the seconds waited after attempt `attempt` failed
Backoff(attempt) == 2 ^ attempt

Return(t, value) == [t EXCEPT !.status = "returned", !.value = value]
Raise(t, exc) == [t EXCEPT !.status = "raised", !.exc = exc]

\* one pass of `for attempt in range(max_retries)` with the call's outcome
analyze_resume_attempt(t, outcome) ==
  LET t1 == [t EXCEPT !.calls = @ + 1, !.last = outcome,
                       !.transients = IF outcome.exc \in TransientExceptions
                                      THEN @ + 1 ELSE @] IN
  IF outcome.exc = ""
  THEN IF outcome.text = ""
       THEN Return(t1, Fallback("ValueError"))
       ELSE IF JSONDecodeError(outcome.text)
            THEN Return(t1, Fallback("JSONDecodeError"))
            ELSE Return(t1, json_loads(outcome.text))
  ELSE IF IsTransient(outcome.exc)
       THEN IF ShouldRetry(t.attempt)
            THEN LET t2 == [t1 EXCEPT !.slept = Append(@, Backoff(t.attempt)),
                                      !.attempt = @ + 1] IN
                 IF t2.attempt < max_retries THEN t2 ELSE Return(t2, Exhausted)
            ELSE Raise(t1, outcome.exc)
       ELSE Return(t1, Fallback(outcome.exc))


\* ---- the authorization gate and the executor
ButtonIds == {"btn_approve", "btn_override"}

\* AuthorizationScreen.on_button_pressed: the result the button sets
ButtonResult(id) == IF id = "btn_approve" THEN "APPROVE" ELSE "OVERRIDE"

\* variant: the answer of the human is not read
AwaitedAction_Approve(future) == "APPROVE"

\* `action = await self._modal_future`
AwaitedAction(future) == future

\* decision['command']['action'] raises KeyError/TypeError unless this holds
HasAction(d) == "command" \in DOMAIN d /\ "action" \in DOMAIN d.command

\* AuthorizationScreen.__init__ reads decision['command']['destination_folder']
HasDestination(d) ==
  "command" \in DOMAIN d /\ "destination_folder" \in DOMAIN d.command

\* variant: the comparison misses the value the schema uses
IsSkip_WrongCase(d) == d.command.action = "skip"

\* the branch `if decision['command']['action'] == "SKIP"`
IsSkip(d) == d.command.action = "SKIP"

\* variant: the try block also encloses the call of analyze_resume
Caught_Everywhere(in_try, exc) == exc # "CancelledError"

\* an exception raised in process_resumes is handled by `except Exception`
\* only inside the try block of the authorization and the move
Caught(in_try, exc) == in_try /\ exc # "CancelledError"

\* variant: the file is copied and the source is left in place
shutil_copy(dirs, source_dir, dest_dir) == dirs \cup {dest_dir}

\* shutil.move(source_path, final_dest_path): the directories holding the file
shutil_move(dirs, source_dir, dest_dir) == (dirs \ {source_dir}) \cup {dest_dir}

\* variant: OVERRIDE does not flip the folder
final_dest_folder_NoFlip(recommended_folder, user_action) == recommended_folder

\* execute_file_move: final_dest_folder
final_dest_folder(recommended_folder, user_action) ==
  IF user_action = "OVERRIDE"
  THEN IF recommended_folder = "Interview_Candidates"
       THEN "Rejected_Candidates"
       ELSE "Interview_Candidates"
  ELSE recommended_folder

\* variant: the reason is the agent's reasoning whatever the human answered
log_reason_Plain(d, user_action) ==
  [prefix |-> "", recommended |-> "", moved_to |-> "", agent |-> d.thought_process]

\* execute_file_move: log_reason
log_reason(d, user_action) ==
  IF user_action = "OVERRIDE"
  THEN [prefix |-> "USER OVERRIDE",
        recommended |-> d.command.destination_folder,
        moved_to |-> final_dest_folder(d.command.destination_folder, user_action),
        agent |-> d.thought_process]
  ELSE [prefix |-> "", recommended |-> "", moved_to |-> "",
        agent |-> d.thought_process]

\* [f for f in os.listdir(dir) if f.endswith(".txt")]: the files of S in
\* directory order; the files are numbered in that order
RECURSIVE Listing(_)
Listing(S) ==
  IF S = {} THEN <<>>
  ELSE LET m == CHOOSE x \in S : \A y \in S : x <= y IN <<m>> \o Listing(S \ {m})

VARIABLES
  loc,                \* the directories that hold a file of each resume's name
  files_to_process,   \* self.files_to_process
  num_processed,      \* self.num_processed
  btn_start_disabled, \* #btn_start .disabled
  btn_stop_disabled,  \* #btn_stop .disabled
  pc,                 \* state of self.processing_task
  crash,              \* the exception that ended the task, "" if none
  filename,           \* process_resumes: filename (0 before the first file)
  decision,           \* process_resumes: decision (NoValue until the plan of the
                      \* current file has returned)
  thread,             \* the worker thread of asyncio.to_thread
  orphans,            \* worker threads still running after their task was cancelled
  modal_future,       \* self._modal_future: "unset", "pending" or its result
  screen,             \* an AuthorizationScreen is on top of the screen stack
  callbacks,          \* pending call_after_refresh callbacks
  audit,              \* the lines of logs/agent_audit.log
  log_widget,         \* the tail of the RichLog: the messages written since
                      \* the last press of START or the last file header
  starts,             \* number of batches started
  detached,           \* live tasks that self.processing_task no longer names
  audit_mark,         \* history: length of the audit log when the batch started
  resume_state,       \* history: stage of each resume in the current batch
  pressed             \* history: the button pressed on the current resume's screen

vars ==
  <<loc, files_to_process, num_processed, btn_start_disabled,
    btn_stop_disabled, pc, crash, filename, decision, thread, orphans,
    modal_future, screen, callbacks, audit, log_widget, starts, detached,
    audit_mark, resume_state, pressed>>

ui == <<btn_start_disabled, btn_stop_disabled>>
task == <<pc, crash, filename, decision, thread, modal_future, screen>>
batch == <<files_to_process, num_processed, starts, detached, audit_mark>>
history == <<resume_state, pressed>>

\* self.log_message(...): the message kind and the file it names (0: none)
Msg(kind, file) == <<kind, file>>

Init ==
  /\ loc = [f \in Files |-> {INBOX}]
  /\ files_to_process = <<>>
  /\ num_processed = 0
  /\ btn_start_disabled = FALSE
  /\ btn_stop_disabled = TRUE
  /\ pc = "none"
  /\ crash = ""
  /\ filename = 0
  /\ decision = NoValue
  /\ thread = IdleThread
  /\ orphans = 0
  /\ modal_future = "unset"
  /\ screen = FALSE
  /\ callbacks = 0
  /\ audit = <<>>
  /\ log_widget = {Msg("ready", 0)}
  /\ starts = 0
  /\ detached = 0
  /\ audit_mark = 0
  /\ resume_state = [f \in Files |-> "PENDING"]
  /\ pressed = "none"

\* the human can press a button of the main screen: it is on top, and the
\* event loop is not inside a step of the task nor about to wake it
MainScreenInput ==
  /\ ~screen
  /\ pc # "loop"
  /\ ~(pc = "modal" /\ modal_future \in {"APPROVE", "OVERRIDE"})

\* the process_resumes task exists and has not ended
TaskLive == pc \in {"scheduled", "loop", "calling", "modal"}

\* variant: the test of the listing is missing
no_files_found_Never(listing) == FALSE

\* if not self.files_to_process
no_files_found(listing) == listing = <<>>

\* Recruiter.start_processing, on a press of START.  Pending
\* call_after_refresh callbacks run when the message pump is idle, before a
\* later press is handled.
start_processing ==
  /\ ~btn_start_disabled
  /\ MainScreenInput
  /\ callbacks = 0
  /\ \E paths_exist \in BOOLEAN, readable \in BOOLEAN :
       LET listing == Listing({f \in Files : INBOX \in loc[f]}) IN
       IF ~paths_exist
       THEN /\ log_widget' = {Msg("invalid_paths", 0)}
            /\ UNCHANGED <<loc, ui, task, batch, orphans, callbacks, audit, history>>
       ELSE IF ~readable
       THEN /\ log_widget' = {Msg("critical_read_error", 0)}
            /\ btn_start_disabled' = FALSE
            /\ UNCHANGED <<loc, btn_stop_disabled, task, batch, orphans, callbacks,
                           audit, history>>
       ELSE IF no_files_found(listing)
       THEN /\ files_to_process' = listing
            /\ num_processed' = 0
            /\ log_widget' = {Msg("no_files", 0)}
            /\ UNCHANGED <<loc, ui, task, starts, detached, audit_mark, orphans, callbacks, audit,
                           history>>
       ELSE /\ starts < MaxStarts
            /\ files_to_process' = listing
            /\ num_processed' = 0
            /\ starts' = starts + 1
            /\ detached' = IF TaskLive THEN detached + 1 ELSE detached
            /\ audit_mark' = Len(audit)
            /\ log_widget' = {Msg("starting_batch", 0)}
            /\ btn_start_disabled' = TRUE
            /\ btn_stop_disabled' = TRUE
            /\ pc' = "scheduled"
            /\ crash' = ""
            /\ resume_state' = [f \in Files |-> IF INBOX \in loc[f] THEN "PENDING"
                                                ELSE resume_state[f]]
            /\ pressed' = "none"
            /\ filename' = 0
            /\ decision' = NoValue
            /\ thread' = IdleThread
            /\ UNCHANGED <<loc, modal_future, screen, orphans, callbacks, audit>>

\* variant: the task is not cancelled
Cancelled_Never(p) == p

\* task.cancel(): CancelledError is thrown into the coroutine where it waits
Cancelled(p) == IF p \in {"scheduled", "calling", "modal"} THEN "cancelled" ELSE p

\* Recruiter.stop_processing(reason)
stop_processing(reason) ==
  /\ pc' = Cancelled(pc)
  /\ crash' = IF pc' # pc THEN "CancelledError" ELSE crash
  /\ thread' = IF pc = "calling" THEN IdleThread ELSE thread
  /\ orphans' = IF pc = "calling" /\ thread.status = "running"
                THEN orphans + 1 ELSE orphans
  /\ modal_future' = IF pc = "modal" THEN "unset" ELSE modal_future
  /\ log_widget' = log_widget \cup {Msg(reason, 0)}
  /\ btn_start_disabled' = FALSE
  /\ btn_stop_disabled' = TRUE

\* a press of STOP
StopPressed ==
  /\ ~btn_stop_disabled
  /\ MainScreenInput
  /\ stop_processing("stopped_by_user")
  /\ UNCHANGED <<loc, batch, filename, decision, screen, callbacks, audit, history>>

\* the callback of call_after_refresh at the end of process_resumes
BatchCompletedCallback ==
  /\ callbacks > 0
  /\ pc # "loop"
  /\ callbacks' = callbacks - 1
  /\ stop_processing("batch_completed")
  /\ UNCHANGED <<loc, batch, filename, decision, screen, audit, history>>

\* process_resumes, first step: up to the while loop
TaskBegins ==
  /\ pc = "scheduled"
  /\ btn_stop_disabled' = FALSE
  /\ pc' = "loop"
  /\ UNCHANGED <<loc, batch, btn_start_disabled, crash, filename, decision, thread,
                 orphans, modal_future, screen, callbacks, audit, log_widget, history>>

\* variant: the loop always takes the head of the list
next_filename_Head(files, n) == files[1]

\* filename = self.files_to_process[self.num_processed] (indices from 0)
next_filename(files, n) == files[n + 1]

\* process_resumes: the loop test, the read of the resume and the start of
\* the model call, or the end of the batch
LoopIteration ==
  /\ pc = "loop"
  /\ IF num_processed < Len(files_to_process)
     THEN LET f == next_filename(files_to_process, num_processed) IN
          \E readable \in BOOLEAN :
            /\ filename' = f
            /\ decision' = NoValue
            /\ IF readable
               THEN /\ log_widget' = {Msg("processing", f), Msg("thinking", f)}
                    /\ thread' = NewThread
                    /\ pc' = "calling"
                    /\ pressed' = "none"
                    /\ UNCHANGED num_processed
               ELSE /\ log_widget' = {Msg("processing", f), Msg("read_error", f)}
                    /\ num_processed' = num_processed + 1
                    /\ UNCHANGED <<thread, pc, pressed>>
            /\ UNCHANGED callbacks
     ELSE /\ log_widget' = log_widget \cup {Msg("batch_finished", 0)}
          /\ callbacks' = callbacks + 1
          /\ pc' = "finished"
          /\ UNCHANGED <<filename, decision, thread, num_processed, pressed>>
  /\ UNCHANGED <<loc, files_to_process, starts, detached, audit_mark, ui, crash, orphans,
                 modal_future, screen, audit, resume_state>>

\* the worker thread: one model.generate_content call of analyze_resume
RemoteCall ==
  /\ pc = "calling"
  /\ thread.status = "running"
  /\ \E outcome \in Outcomes : thread' = analyze_resume_attempt(thread, outcome)
  /\ UNCHANGED <<loc, batch, ui, pc, crash, filename, decision, orphans, modal_future,
                 screen, callbacks, audit, log_widget, history>>

\* a worker thread whose task was cancelled runs analyze_resume to its end
OrphanThreadEnds ==
  /\ orphans > 0
  /\ orphans' = orphans - 1
  /\ UNCHANGED <<loc, batch, ui, task, callbacks, audit, log_widget, history>>

\* variant: the file is opened with "w" and holds the new line only
log_action_Overwrite(file, action, folder, reason) ==
  <<[file |-> file, action |-> action, destination |-> folder, reason |-> reason]>>

\* log_action(filename, action, folder, reason): one line appended
log_action(file, action, folder, reason) ==
  Append(audit, [file |-> file, action |-> action, destination |-> folder,
                 reason |-> reason])

SkipReason(d) ==
  [prefix |-> "", recommended |-> "", moved_to |-> "", agent |-> d.thought_process]

\* an exception raised inside process_resumes: handled by the except clause
\* of the try block (logged, file counted, loop continues) or ending the task
TaskRaises(in_try, exc, f) ==
  IF Caught(in_try, exc)
  THEN /\ log_widget' = log_widget \cup {Msg("recommends", f), Msg("execution_error", f)}
       /\ num_processed' = num_processed + 1
       /\ pc' = "loop"
       /\ UNCHANGED crash
  ELSE /\ pc' = "crashed"
       /\ crash' = exc
       /\ UNCHANGED <<num_processed, log_widget>>

\* process_resumes resumes from `await asyncio.to_thread(analyze_resume, ...)`:
\* the SKIP branch, or the creation of the future and the push of the screen
PlanReturned ==
  /\ pc = "calling"
  /\ thread.status \in {"returned", "raised"}
  /\ IF thread.status = "raised"
     THEN /\ TaskRaises(FALSE, thread.exc, filename)
          /\ UNCHANGED <<decision, audit, modal_future, screen, resume_state>>
     ELSE LET d == thread.value IN
          /\ decision' = d
          /\ IF ~HasAction(d)
             THEN /\ TaskRaises(FALSE, "KeyError", filename)
                  /\ resume_state' = [resume_state EXCEPT ![filename] = "PLANNED"]
                  /\ UNCHANGED <<audit, modal_future, screen>>
             ELSE IF IsSkip(d)
             THEN /\ log_widget' = log_widget \cup {Msg("skipped", filename)}
                  /\ audit' = log_action(filename, "SKIP", "N/A", SkipReason(d))
                  /\ num_processed' = num_processed + 1
                  /\ pc' = "loop"
                  /\ resume_state' = [resume_state EXCEPT ![filename] = "SKIPPED"]
                  /\ UNCHANGED <<crash, modal_future, screen>>
             ELSE IF ~HasDestination(d)
             THEN /\ modal_future' = "pending"
                  /\ TaskRaises(TRUE, "KeyError", filename)
                  /\ resume_state' = [resume_state EXCEPT ![filename] = "PLANNED"]
                  /\ UNCHANGED <<audit, screen>>
             ELSE /\ log_widget' = log_widget \cup {Msg("recommends", filename)}
                  /\ modal_future' = "pending"
                  /\ screen' = TRUE
                  /\ pc' = "modal"
                  /\ resume_state' = [resume_state EXCEPT ![filename] = "PLANNED"]
                  /\ UNCHANGED <<crash, audit, num_processed>>
  /\ thread' = IdleThread
  /\ UNCHANGED <<loc, files_to_process, starts, detached, audit_mark, ui, filename,
                 orphans, callbacks, pressed>>

\* AuthorizationScreen.on_button_pressed, on a press of APPROVE or OVERRIDE
ModalButtonPressed ==
  /\ screen
  /\ pc # "loop"
  /\ \E id \in ButtonIds :
       IF modal_future = "pending"
       THEN /\ modal_future' = ButtonResult(id)
            /\ pressed' = id
            /\ resume_state' = [resume_state EXCEPT ![filename] = "AUTHORIZED"]
       ELSE UNCHANGED <<modal_future, pressed, resume_state>>
  /\ screen' = FALSE
  /\ UNCHANGED <<loc, batch, ui, pc, crash, filename, decision, thread, orphans,
                 callbacks, audit, log_widget>>

\* variant: the handler swallows the exception
move_error_logged_Silent(file) == {}

\* the handler of a failing move writes "System Error Moving File" to the log
move_error_logged(file) == {Msg("move_error", file)}

\* Recruiter.execute_file_move(decision, filename, user_action); move_ok is
\* whether os.makedirs and shutil.move succeed
execute_file_move(d, file, user_action, move_ok) ==
  LET recommended_folder == d.command.destination_folder
      final == final_dest_folder(recommended_folder, user_action)
      said == {Msg("user_action", file),
               Msg(IF user_action = "OVERRIDE" THEN "user_override" ELSE "approved", file)}
  IN IF move_ok
     THEN /\ loc' = [loc EXCEPT ![file] = shutil_move(@, INBOX, final)]
          /\ audit' = log_action(file, d.command.action, final, log_reason(d, user_action))
          /\ log_widget' = log_widget \cup said \cup {Msg("moved", file)}
          /\ resume_state' = [resume_state EXCEPT ![file] = "MOVED"]
     ELSE /\ log_widget' = log_widget \cup said \cup move_error_logged(file)
          /\ resume_state' = [resume_state EXCEPT ![file] = "MOVE_FAILED"]
          /\ UNCHANGED <<loc, audit>>

\* process_resumes resumes from `await self._modal_future` and moves the file
AuthorizationResolved ==
  /\ pc = "modal"
  /\ modal_future \in {"APPROVE", "OVERRIDE"}
  /\ modal_future' = "unset"
  /\ \E move_ok \in BOOLEAN :
       execute_file_move(decision, filename, AwaitedAction(modal_future), move_ok)
  /\ num_processed' = num_processed + 1
  /\ pc' = "loop"
  /\ UNCHANGED <<files_to_process, starts, detached, audit_mark, ui, crash, filename, decision,
                 thread, orphans, screen, callbacks, pressed>>

Next ==
  \/ start_processing
  \/ StopPressed
  \/ BatchCompletedCallback
  \/ TaskBegins
  \/ LoopIteration
  \/ RemoteCall
  \/ OrphanThreadEnds
  \/ PlanReturned
  \/ ModalButtonPressed
  \/ AuthorizationResolved

Spec == Init /\ [][Next]_vars

\* ---------------------------------------------------------------------
\* Properties

TwoFolders == {"Interview_Candidates", "Rejected_Candidates"}

\* the task takes the step that follows `await asyncio.to_thread(...)`
PlanStep == pc = "calling" /\ pc' \in {"loop", "modal", "crashed"}

\* the value is a dict with command.action = "SKIP"
SkipDecision(d) ==
  /\ "command" \in DOMAIN d
  /\ "action" \in DOMAIN d.command
  /\ d.command.action = "SKIP"

\* the value is a dict with command.action = "MOVE_FILE" and a destination
MoveDecision(d) ==
  /\ "command" \in DOMAIN d
  /\ "action" \in DOMAIN d.command
  /\ "destination_folder" \in DOMAIN d.command
  /\ d.command.action = "MOVE_FILE"

\* the loop has run execute_file_move for the current file f
Executed(f) ==
  /\ filename = f
  /\ pc \in {"loop", "finished"}
  /\ resume_state[f] \in {"MOVED", "MOVE_FAILED"}

\* execute_file_move runs for f in this step (the move succeeds or fails)
ExecuteStep(f) ==
  /\ resume_state'[f] \in {"MOVED", "MOVE_FAILED"}
  /\ resume_state'[f] # resume_state[f]

\* C1: execute_file_move runs for a resume, and a resume file changes place,
\* only in the step in which process_resumes resumes from the modal future of
\* that same file, after a button press resolved the future to APPROVE or
\* OVERRIDE; and the place the file goes to is the one that answer selects
\* (APPROVE: the recommended folder; OVERRIDE: one of the two folders, not
\* the recommended one).
C1_MoveOnlyAfterAnswer ==
  [][\A f \in Files :
       (loc'[f] # loc[f] \/ ExecuteStep(f)) =>
         /\ pc = "modal"
         /\ filename = f
         /\ screen = FALSE
         /\ \/ pressed = "btn_approve" /\ modal_future = "APPROVE"
            \/ pressed = "btn_override" /\ modal_future = "OVERRIDE"
         /\ (loc'[f] # loc[f] /\ modal_future = "APPROVE") =>
              loc'[f] = {decision.command.destination_folder}
         /\ (loc'[f] # loc[f] /\ modal_future = "OVERRIDE") =>
              /\ loc'[f] \subseteq TwoFolders
              /\ decision.command.destination_folder \notin loc'[f]]_vars

C1_Witness ==
  \E f \in Files :
    /\ Executed(f)
    /\ resume_state[f] = "MOVED"
    /\ pressed = "btn_override"
    /\ INBOX \notin loc[f]

\* C2: when analyze_resume returns a decision with action SKIP, the step of
\* the loop that receives it moves no file, creates no future and pushes no
\* screen (so execute_file_move is not reached), counts the file and goes to
\* the loop head; and a resume skipped in the batch is still in the source
\* directory and in no folder.
C2_SkipMovesNothing ==
  /\ [](\A f \in Files : resume_state[f] = "SKIPPED" => loc[f] = {INBOX})
  /\ [][(PlanStep /\ thread.status = "returned" /\ SkipDecision(thread.value)) =>
          /\ loc' = loc
          /\ INBOX \in loc[filename]
          /\ modal_future' = modal_future
          /\ screen' = FALSE
          /\ pc' = "loop"
          /\ num_processed' = num_processed + 1
          /\ resume_state'[filename] = "SKIPPED"]_vars

C2_Witness ==
  \E f \in Files :
    /\ filename = f
    /\ pc = "loop"
    /\ num_processed < Len(files_to_process)
    /\ resume_state[f] = "SKIPPED"
    /\ decision = json_loads("skip")
    /\ loc[f] = {INBOX}

\* C3: after execute_file_move ran for a MOVE_FILE decision with the answer
\* APPROVE and the move succeeded, the file is in the recommended folder and
\* nowhere else (not in the source directory); when os.makedirs or
\* shutil.move raised instead, it is still in the source directory only.
C3_ApproveMovesToRecommended ==
  \A f \in Files :
    (Executed(f) /\ pressed = "btn_approve" /\ MoveDecision(decision)) =>
      IF resume_state[f] = "MOVED"
      THEN loc[f] = {decision.command.destination_folder}
      ELSE loc[f] = {INBOX}

C3_Witness ==
  \E f \in Files :
    /\ Executed(f)
    /\ pressed = "btn_approve"
    /\ decision = json_loads("move_interview")
    /\ resume_state[f] = "MOVED"
    /\ loc[f] = {"Interview_Candidates"}

\* C4: after execute_file_move ran for a MOVE_FILE decision with the answer
\* OVERRIDE and the move succeeded, the file is in Rejected_Candidates if
\* Interview_Candidates was recommended, in Interview_Candidates if
\* Rejected_Candidates was recommended, and for any recommended value in one
\* of these two folders only and not in the recommended one.
C4_OverrideMovesToOpposite ==
  \A f \in Files :
    (Executed(f) /\ pressed = "btn_override" /\ MoveDecision(decision)) =>
      IF resume_state[f] = "MOVED"
      THEN LET rec == decision.command.destination_folder IN
           /\ rec = "Interview_Candidates" => loc[f] = {"Rejected_Candidates"}
           /\ rec = "Rejected_Candidates" => loc[f] = {"Interview_Candidates"}
           /\ Cardinality(loc[f]) = 1
           /\ loc[f] \subseteq TwoFolders
           /\ rec \notin loc[f]
      ELSE loc[f] = {INBOX}

C4_Witness ==
  \E f \in Files :
    /\ Executed(f)
    /\ pressed = "btn_override"
    /\ decision = json_loads("move_archive")
    /\ resume_state[f] = "MOVED"
    /\ loc[f] = {"Interview_Candidates"}

\* the outcome is a response whose text json.loads accepts
ParsedOutcome(o) == o.exc = "" /\ o.text \notin {"", "not json", "none"}

\* C5: analyze_resume with cap max_retries: generate_content is called at
\* most max_retries times for one resume; a run that returns the parsed
\* response after k transient failures has k < max_retries and made k + 1
\* calls; a run raises only a transient failure, after max_retries calls that
\* all failed transiently; and max_retries transient failures always end in
\* the raise.
C5_RetryBound ==
  /\ thread.calls <= max_retries
  /\ thread.status = "running" =>
       thread.calls = thread.transients /\ thread.calls < max_retries
  /\ (thread.status = "returned" /\ ParsedOutcome(thread.last)) =>
       /\ thread.transients < max_retries
       /\ thread.calls = thread.transients + 1
       /\ thread.value = json_loads(thread.last.text)
  /\ thread.status = "raised" =>
       /\ thread.exc \in {"ResourceExhausted", "ServiceUnavailable"}
       /\ thread.exc = thread.last.exc
       /\ thread.calls = max_retries
       /\ thread.transients = max_retries
  /\ thread.transients = max_retries => thread.status = "raised"

C5_Witness ==
  /\ thread.status = "returned"
  /\ thread.transients = max_retries - 1
  /\ thread.calls = max_retries
  /\ thread.value = json_loads("move_rejected")

\* the outcome is a failure that is not transient: an empty response, a text
\* that is not JSON, or an exception other than the two transient ones
NonTransientFailure(o) ==
  \/ o.exc = "" /\ o.text \in {"", "not json"}
  \/ o.exc \notin {"", "ResourceExhausted", "ServiceUnavailable"}

\* the fallback decision of analyze_resume
IsFallback(d) ==
  /\ DOMAIN d = {"match_score", "thought_process", "command"}
  /\ d.match_score = 0
  /\ d.command = [action |-> "SKIP", destination_folder |-> "Rejected_Candidates"]

\* C6: a call of generate_content that fails in a way that is not transient
\* ends analyze_resume at once by returning the fallback decision (nothing
\* raised, no further call), whatever transient failures came before; the
\* loop step that receives it leaves the file in the source directory, counts
\* it and goes to the loop head for the next file.
C6_FallbackOnOtherFailure ==
  /\ [](NonTransientFailure(thread.last) =>
          /\ thread.status = "returned"
          /\ IsFallback(thread.value)
          /\ thread.calls = thread.transients + 1)
  /\ [][(PlanStep /\ NonTransientFailure(thread.last)) =>
          /\ loc' = loc
          /\ loc[filename] = {INBOX}
          /\ pc' = "loop"
          /\ crash' = crash
          /\ num_processed' = num_processed + 1
          /\ resume_state'[filename] = "SKIPPED"]_vars

C6_Witness ==
  /\ pc = "loop"
  /\ num_processed = 1
  /\ Len(files_to_process) = 2
  /\ resume_state[filename] = "SKIPPED"
  /\ decision = Fallback("JSONDecodeError")
  /\ loc[filename] = {INBOX}

\* the lines the current batch appended to the audit log
BatchAudit == {audit[i] : i \in (audit_mark + 1)..Len(audit)}

\* C7: an authentication/permission failure of the remote call ends the run:
\* once a resume of the batch got it, the loop never goes on to another
\* resume (filename stays that resume).
C7_AuthFailureEndsRun ==
  \A r \in BatchAudit :
    r.reason.agent = "ERROR: Failed plan generation due to PermissionDenied" =>
      filename = r.file

\* the task ended because analyze_resume re-raised a transient failure
RetriesExhausted ==
  pc = "crashed" /\ crash \in {"ResourceExhausted", "ServiceUnavailable"}

\* C8: when analyze_resume raises after its last retry, the step of
\* process_resumes that receives the exception ends the task and changes
\* nothing else; in that state the failing resume and every later resume of
\* the batch are in the source directory with no audit line of this batch,
\* every later resume is still PENDING, no model call, future or screen is
\* open; and nothing of it changes until START begins another batch.
C8_ExhaustionStopsLoop ==
  /\ [](RetriesExhausted =>
          /\ num_processed < Len(files_to_process)
          /\ filename = files_to_process[num_processed + 1]
          /\ thread.status = "idle"
          /\ screen = FALSE
          /\ \A j \in (num_processed + 1)..Len(files_to_process) :
               /\ loc[files_to_process[j]] = {INBOX}
               /\ \A r \in BatchAudit : r.file # files_to_process[j]
               /\ j > num_processed + 1 =>
                    resume_state[files_to_process[j]] = "PENDING")
  /\ [][(PlanStep /\ thread.status = "raised") =>
          /\ pc' = "crashed"
          /\ crash' = thread.exc
          /\ UNCHANGED <<loc, audit, num_processed, filename, resume_state,
                         modal_future, screen, log_widget>>]_vars
  /\ [][RetriesExhausted =>
          \/ starts' = starts + 1
          \/ /\ pc' = pc
             /\ UNCHANGED <<loc, audit, num_processed, filename, resume_state,
                            thread, modal_future, screen, files_to_process>>]_vars

C8_Witness ==
  /\ RetriesExhausted
  /\ crash = "ServiceUnavailable"
  /\ num_processed = 0
  /\ Len(files_to_process) > 1
  /\ \A f \in Files : resume_state[f] = "PENDING"

\* C9: when the loop has ended because the retries were exhausted, the log
\* output holds a message about it (one other than the file header and the
\* "Thinking" line written before the call) and the controls are idle: START
\* enabled, STOP disabled.
C9_FatalFailureSurfaced ==
  RetriesExhausted =>
    /\ \E m \in log_widget : m[1] \notin {"processing", "thinking"}
    /\ btn_start_disabled = FALSE
    /\ btn_stop_disabled = TRUE

\* the value is not a dict of the Decision shape
LacksDecisionShape(d) ==
  ~ /\ DOMAIN d = {"match_score", "thought_process", "command"}
    /\ DOMAIN d.command = {"action", "destination_folder"}

\* C10: a response that parses as JSON but lacks the Decision shape is
\* treated as a plan failure: the loop holds the fallback SKIP decision for
\* that resume, the task has not ended with an exception and the resume is
\* skipped.
C10_MalformedPlanIsSkipped ==
  \A f \in Files :
    (filename = f /\ decision # NoValue /\ resume_state[f] # "PENDING") =>
      /\ ~LacksDecisionShape(decision)
      /\ pc # "crashed"

\* the number of lines the current batch appended to the audit log for f
BatchLines(f) ==
  Cardinality({i \in (audit_mark + 1)..Len(audit) : audit[i].file = f})

\* the resume was moved or skipped (by a SKIP decision)
Recorded(state) == state \in {"MOVED", "SKIPPED"}

MoveFails ==
  /\ pc = "modal"
  /\ resume_state[filename] = "AUTHORIZED"
  /\ resume_state'[filename] = "MOVE_FAILED"

\* C12: when the move of an authorized file fails, the error is written to the
\* log output, no audit line is appended, the file stays where it was,
\* num_processed grows by one and the loop goes on to the next file; later in
\* that batch the file is not moved again and gets no audit line.
C12_FailedMoveIsCounted ==
  /\ [][MoveFails =>
          /\ Msg("move_error", filename) \in log_widget'
          /\ audit' = audit
          /\ loc' = loc
          /\ num_processed' = num_processed + 1
          /\ files_to_process' = files_to_process
          /\ pc' = "loop"]_vars
  /\ [][\A f \in Files :
          (resume_state[f] = "MOVE_FAILED" /\ starts' = starts)
            => /\ resume_state'[f] = "MOVE_FAILED"
               /\ loc'[f] = loc[f]]_vars
  /\ [](\A f \in Files :
          resume_state[f] = "MOVE_FAILED" => (loc[f] = {INBOX} /\ BatchLines(f) = 0))

C12_Witness ==
  /\ Len(files_to_process) = 2
  /\ num_processed = 1
  /\ pc = "loop"
  /\ resume_state[files_to_process[1]] = "MOVE_FAILED"
  /\ pressed = "btn_override"
  /\ Msg("move_error", files_to_process[1]) \in log_widget

\* the audit line appended by the step, when the step appends one
NewLine == audit'[Len(audit')]

TerminalStates == {"SKIPPED", "MOVED", "MOVE_FAILED"}

\* C14: STOP takes effect between files only: when the task has ended by
\* cancellation, the resume it was processing has reached a terminal state
\* (SKIPPED, MOVED or MOVE_FAILED) and no model call was abandoned in flight.
C14_StopBetweenFiles ==
  pc = "cancelled" =>
    /\ filename # 0 => resume_state[filename] \in TerminalStates
    /\ orphans = 0

\* C15 as stated: a resume that has reached SKIPPED, MOVED or MOVE_FAILED
\* stays there over any sequence of START, STOP and re-START.
C15_TerminalIsFinal ==
  [][\A f \in Files :
       resume_state[f] \in TerminalStates => resume_state'[f] = resume_state[f]]_vars

\* the steps of a resume inside a batch; the SKIP branch plans and skips in
\* one step of the task
Lifecycle ==
  {<<"PENDING", "PLANNED">>, <<"PENDING", "SKIPPED">>, <<"PLANNED", "AUTHORIZED">>,
   <<"AUTHORIZED", "MOVED">>, <<"AUTHORIZED", "MOVE_FAILED">>}

\* C15, amended: inside a batch the resume being processed moves along
\* PENDING -> PLANNED -> {SKIPPED | AUTHORIZED -> MOVED | AUTHORIZED ->
\* MOVE_FAILED} and no other resume changes state; the loop only takes up a
\* resume that is PENDING, so none re-enters processing in the batch in which
\* it became terminal; a MOVED resume has left the source directory and never
\* changes state again; only the START of a new batch puts resumes back to
\* PENDING, namely those still in the source directory, SKIPPED and
\* MOVE_FAILED ones included.
C15_LifecyclePerBatch ==
  /\ [][\A f \in Files :
          resume_state'[f] # resume_state[f] =>
            \/ /\ starts' = starts
               /\ f = filename
               /\ <<resume_state[f], resume_state'[f]>> \in Lifecycle
            \/ /\ starts' = starts + 1
               /\ resume_state'[f] = "PENDING"
               /\ resume_state[f] # "MOVED"
               /\ INBOX \in loc[f]]_vars
  /\ [][(pc = "loop" /\ filename' # filename) =>
          resume_state[filename'] = "PENDING"]_vars
  /\ [][(pc = "loop" /\ pc' = "calling") =>
          resume_state[filename'] = "PENDING"]_vars
  /\ [](\A f \in Files : resume_state[f] = "MOVED" => INBOX \notin loc[f])

\* a resume skipped in the first batch is planned again in the second
C15_Witness ==
  /\ starts = 2
  /\ Len(audit) = 1
  /\ audit[1].action = "SKIP"
  /\ filename = audit[1].file
  /\ resume_state[filename] = "AUTHORIZED"

\* the model calls in flight: the one the task waits for and those of worker
\* threads whose task was cancelled
CallsInFlight == orphans + (IF thread.status = "running" THEN 1 ELSE 0)

\* C16: at every moment at most one remote model call is in flight, also
\* after STOP was pressed during a model call and START was pressed again.
C16_OneCallInFlight == CallsInFlight <= 1

\* what start_processing writes to the log when it gives up
FailedStartLogs ==
  {{Msg("invalid_paths", 0)}, {Msg("critical_read_error", 0)}, {Msg("no_files", 0)}}

\* C17: a START that finds the paths missing, cannot read or list them, or
\* finds no .txt file creates no task, starts no model call, moves no file,
\* appends no audit line and leaves START enabled; a task is only ever created
\* over a non-empty list of files that are in the source directory.
C17_InvalidConfigurationStartsNothing ==
  /\ [][(log_widget' \in FailedStartLogs /\ log_widget' # log_widget) =>
          /\ ~btn_start_disabled'
          /\ ~TaskLive'
          /\ UNCHANGED <<pc, thread, orphans, loc, audit, starts, resume_state>>]_vars
  /\ [][starts' # starts =>
          /\ files_to_process' # <<>>
          /\ \A i \in 1..Len(files_to_process') : INBOX \in loc[files_to_process'[i]]]_vars
  /\ [](TaskLive => files_to_process # <<>>)
  /\ [](log_widget \in FailedStartLogs => (~btn_start_disabled /\ ~TaskLive))

C17_Witness ==
  /\ log_widget = {Msg("no_files", 0)}
  /\ files_to_process = <<>>
  /\ Len(audit) = NumFiles
  /\ ~btn_start_disabled
  /\ pc = "finished"

\* a step of analyze_resume: one more model call has ended
CallEnds == thread'.calls = thread.calls + 1

\* C19: the waits of one analyze_resume call are 1 s, 2 s, ... in this order:
\* the transient failure of attempt i (from 0) with i < max_retries - 1 is
\* followed by a wait of exactly 2^i seconds; nothing is waited before the
\* first attempt, after a success, after a non-transient failure, or after the
\* failure of the last attempt, which is re-raised.
C19_BackoffSchedule ==
  /\ [](/\ Len(thread.slept) <= max_retries - 1
        /\ \A i \in 1..Len(thread.slept) : thread.slept[i] = 2 ^ (i - 1)
        /\ Len(thread.slept) =
             IF thread.status = "raised" THEN thread.transients - 1
                                         ELSE thread.transients
        /\ thread.calls =
             IF thread.status \in {"returned", "raised"} THEN Len(thread.slept) + 1
                                                         ELSE Len(thread.slept)
        /\ thread.status = "raised" => thread.slept = <<1, 2>>)
  /\ [][CallEnds =>
          IF thread'.last.exc \in TransientExceptions /\ thread.attempt < max_retries - 1
          THEN /\ thread'.slept = Append(thread.slept, 2 ^ thread.attempt)
               /\ thread'.status = "running"
          ELSE /\ thread'.slept = thread.slept
               /\ thread'.status \in {"returned", "raised"}]_vars
  /\ [][(pc = "loop" /\ pc' = "calling") =>
          (thread'.slept = <<>> /\ thread'.calls = 0)]_vars

\* the third attempt succeeds after two waits
C19_Witness ==
  /\ thread.status = "returned"
  /\ thread.last.exc = ""
  /\ thread.calls = max_retries
  /\ thread.slept = <<1, 2>>

\* C18: a batch that is not stopped and meets no fatal remote failure runs to
\* its end: num_processed never exceeds the number of listed files, the loop
\* reports the batch finished only when every listed file was counted, and
\* the task ends early only by a re-raised transient failure of the model
\* call (STOP apart), never by another exception.
C18_BatchCompletes ==
  /\ num_processed <= Len(files_to_process)
  /\ pc = "finished" => num_processed = Len(files_to_process)
  /\ pc = "crashed" => crash \in TransientExceptions

\* C20: at most one process_resumes task is live: a task is created only when
\* none is live, START is disabled while a task is live and is enabled again
\* only by stop_processing, after which no task is live; once cancelled the
\* task takes no further step (no move, no audit line, no change of
\* num_processed by it); files are moved and audit lines appended only by the
\* one live task.
C20_SingleTask ==
  /\ [](detached = 0)
  /\ [](TaskLive => btn_start_disabled)
  /\ [][starts' # starts => (~TaskLive /\ TaskLive' /\ btn_start_disabled')]_vars
  /\ [][(btn_start_disabled /\ ~btn_start_disabled') =>
          /\ ~TaskLive'
          /\ \/ Msg("stopped_by_user", 0) \in log_widget'
             \/ Msg("batch_completed", 0) \in log_widget']_vars
  /\ [][pc = "cancelled" =>
          /\ loc' = loc
          /\ audit' = audit
          /\ resume_state' = resume_state \/ starts' # starts
          /\ num_processed' = num_processed \/ starts' # starts
          /\ pc' = "cancelled" \/ starts' # starts]_vars
  /\ [][(loc' # loc \/ audit' # audit) => (TaskLive /\ starts' = starts)]_vars

\* a second task is live after the first was cancelled by STOP
C20_Witness ==
  /\ starts = 2
  /\ pc = "modal"
  /\ crash = ""
  /\ btn_start_disabled
  /\ orphans = 1
  /\ detached = 0
====
